---- MODULE Spec2Model ----
(***************************************************************************)
(* Tetra Balance (src/app.js): the geometry synthesis of a polycube piece  *)
(* (occupancy index, exposed faces, block meshes, internal partitions,     *)
(* centering and mounting under a pivot) and the handlers that drive the   *)
(* pivot (animation frame, pause button, touch drag, "New Piece" button).  *)
(*                                                                         *)
(* Lengths are fixed-point numbers in units of 1/10000 of a world unit     *)
(* (so 1.0 is 10000, the bar thickness 0.05 is 500, EPS 0.0015 is 15).     *)
(* Angles are fixed-point numbers in units of 1/1000 radian, except the    *)
(* rotation of a mesh about the vertical axis, which the code only sets to *)
(* multiples of PI/2 and which is kept as a number of quarter turns.       *)
(* Camera, renderer and the resize handler hold no state the piece or the  *)
(* pivot depend on and are left out.                                       *)
(***************************************************************************)
EXTENDS Integers, Sequences, FiniteSets, TLC

\* ------------------------------------------------------------------ bounds
\* Largest x and z of a generated cube coordinate (x ranges over -1..MaxCoord).
MaxCoord == 1
\* Largest height level of a generated cube coordinate.
MaxH == 0
\* Most cubes in a generated piece definition.
MaxCubes == 2
\* Longest generated exposedFaces argument of createBlock.
MaxFaces == 2
\* Objects (THREE.Group) that can be alive at once.
MaxObjects == 4
\* Largest touch coordinate (pixels) of a touch event.
MaxTouch == 1
\* Largest |pivot.rotation.x| and |pivot.rotation.y| the model follows.
MaxRotX == 10
MaxRotY == 10

\* --------------------------------------------------------------- constants
\* 1.0 in length units (size = 1.0, app.js:115; PlaneGeometry(1.0, 1.0), app.js:202).
One == 10000
size == One
\* t = 0.05, bar thickness.
t == 500
\* EPS = 0.0015, outward offset of a face panel.
EPS == 15
\* pivot.rotation.y += 0.005 per frame.
SpinStep == 5
\* rotation += d * 0.01 per dragged pixel.
DragGain == 10
\* (0 - pivot.rotation.x) * 0.18, in hundredths.
ResetGainPct == 18
\* Math.abs(pivot.rotation.x) < 0.001.
ResetEps == 1

Undefined == 0

\* ----------------------------------------------------------------- helpers
Range(s) == {s[i] : i \in 1..Len(s)}

Abs(n) == IF n < 0 THEN -n ELSE n

SetMin(S) == CHOOSE m \in S : \A n \in S : m <= n

SetMax(S) == CHOOSE m \in S : \A n \in S : m >= n

RECURSIVE Concat(_)
Concat(ss) == IF ss = <<>> THEN <<>> ELSE Head(ss) \o Concat(Tail(ss))

Vec3Add(a, b) == <<a[1] + b[1], a[2] + b[2], a[3] + b[3]>>

Vec3Sub(a, b) == <<a[1] - b[1], a[2] - b[2], a[3] - b[3]>>

\* ------------------------------------------------------------ piece catalog
pieces ==
  << << <<0, 0, 0>>, <<1, 0, 0>>, <<2, 0, 0>>, <<3, 0, 0>> >>,
     << <<0, 0, 0>>, <<1, 0, 0>>, <<2, 0, 0>>, <<2, 1, 0>> >>,
     << <<0, 0, 0>>, <<1, 0, 0>>, <<2, 0, 0>>, <<1, 1, 0>> >>,
     << <<0, 0, 0>>, <<1, 0, 0>>, <<1, 1, 0>>, <<2, 1, 0>> >>,
     << <<0, 0, 0>>, <<1, 0, 0>>, <<0, 1, 0>>, <<1, 1, 0>> >>,
     << <<0, 0, 0>>, <<1, 0, 0>>, <<1, 1, 0>>, <<1, 0, 1>> >>,
     << <<0, 0, 0>>, <<1, 0, 0>>, <<1, 1, 0>>, <<0, 0, 1>> >> >>

\* ------------------------------------------------------------ occupancy keys
\* The template literal `${a},${b},${c}`: each integer printed in decimal, as
\* a sequence of characters.
Digit(d) == <<"0", "1", "2", "3", "4", "5", "6", "7", "8", "9">>[d + 1]

RECURSIVE NatToString(_)
NatToString(n) ==
  IF n < 10 THEN <<Digit(n)>> ELSE NatToString(n \div 10) \o <<Digit(n % 10)>>

NumberToString(n) == IF n < 0 THEN <<"-">> \o NatToString(-n) ELSE NatToString(n)

key(x, z, h) ==
  NumberToString(x) \o <<",">> \o NumberToString(z) \o <<",">> \o NumberToString(h)

\* The destructuring default [x, z, h = 0].
CubeX(c) == c[1]

CubeZ(c) == c[2]

CubeH(c) == IF Len(c) >= 3 THEN c[3] ELSE 0

\* new Set(data.map(([x, z, h = 0]) => `${x},${z},${h}`))
Occ3D(data) == {key(CubeX(c), CubeZ(c), CubeH(c)) : c \in Range(data)}

has(occ3D, a, b, c) == key(a, b, c) \in occ3D

\* ----------------------------------------------------------- exposed faces
exposedFacesFor_AnyHeight(cube, occ3D) ==
  LET x == cube[1]
      z == cube[2]
      hasCol(a, b) == \E k \in -1..(MaxH + 1) : has(occ3D, a, b, k)
  IN  (IF ~hasCol(x, z + 1) THEN <<"front">> ELSE <<>>)
      \o (IF ~hasCol(x, z - 1) THEN <<"back">> ELSE <<>>)
      \o (IF ~hasCol(x - 1, z) THEN <<"left">> ELSE <<>>)
      \o (IF ~hasCol(x + 1, z) THEN <<"right">> ELSE <<>>)

exposedFacesFor_Mirrored(cube, occ3D) ==
  LET x == cube[1]
      z == cube[2]
      h == cube[3]
  IN  (IF ~has(occ3D, x, z + 1, h) THEN <<"front">> ELSE <<>>)
      \o (IF ~has(occ3D, x, z - 1, h) THEN <<"back">> ELSE <<>>)
      \o (IF ~has(occ3D, x + 1, z, h) THEN <<"left">> ELSE <<>>)
      \o (IF ~has(occ3D, x - 1, z, h) THEN <<"right">> ELSE <<>>)

exposedFacesFor(cube, occ3D) ==
  LET x == cube[1]
      z == cube[2]
      h == cube[3]
  IN  (IF ~has(occ3D, x, z + 1, h) THEN <<"front">> ELSE <<>>)
      \o (IF ~has(occ3D, x, z - 1, h) THEN <<"back">> ELSE <<>>)
      \o (IF ~has(occ3D, x - 1, z, h) THEN <<"left">> ELSE <<>>)
      \o (IF ~has(occ3D, x + 1, z, h) THEN <<"right">> ELSE <<>>)

\* ------------------------------------------------------------- scene nodes
\* A node of the scene graph below a piece: a mesh (type = the geometry it
\* was built from, no children) or a block group (type "group").
Mesh(geom, position, quarterTurns) ==
  [type |-> geom, position |-> position, rotY |-> quarterTurns, children |-> <<>>]

Group(children) ==
  [type |-> "group", position |-> <<0, 0, 0>>, rotY |-> 0, children |-> children]

IsPanel(node) == node.type \in {"faceGeom", "innerGeom"}

IsBar(node) == node.type \in {"horiz", "depth", "vert"}

\* The 12 addBar calls, in order.
EdgeBars ==
  LET s == size \div 2
  IN  << Mesh("horiz", <<0, -s, s>>, 0),  Mesh("horiz", <<0, -s, -s>>, 0),
         Mesh("depth", <<s, -s, 0>>, 0),  Mesh("depth", <<-s, -s, 0>>, 0),
         Mesh("horiz", <<0, s, s>>, 0),   Mesh("horiz", <<0, s, -s>>, 0),
         Mesh("depth", <<s, s, 0>>, 0),   Mesh("depth", <<-s, s, 0>>, 0),
         Mesh("vert", <<s, 0, s>>, 0),    Mesh("vert", <<-s, 0, s>>, 0),
         Mesh("vert", <<s, 0, -s>>, 0),   Mesh("vert", <<-s, 0, -s>>, 0) >>

addFace(where) ==
  LET s  == size \div 2
      p0 == Mesh("faceGeom", <<0, 0, 0>>, 0)
      p1 == IF where = "front"
              THEN [p0 EXCEPT !.position[3] = s + EPS] ELSE p0
      p2 == IF where = "back"
              THEN [p1 EXCEPT !.position[3] = -s - EPS, !.rotY = 2] ELSE p1
      p3 == IF where = "left"
              THEN [p2 EXCEPT !.position[1] = -s - EPS, !.rotY = 1] ELSE p2
      p4 == IF where = "right"
              THEN [p3 EXCEPT !.position[1] = s + EPS, !.rotY = -1] ELSE p3
  IN  p4

IsSide(f) == f = "front" \/ f = "back" \/ f = "left" \/ f = "right"

createBlock_NoFilter(exposedFaces) ==
  Group(EdgeBars \o [i \in 1..Len(exposedFaces) |-> addFace(exposedFaces[i])])

createBlock(exposedFaces) ==
  LET sides == SelectSeq(exposedFaces, IsSide)
  IN  Group(EdgeBars \o [i \in 1..Len(sides) |-> addFace(sides[i])])

\* ------------------------------------------------------------ internal walls
WallX(c) ==
  Mesh("innerGeom",
       <<CubeX(c) * One + One \div 2, CubeH(c) * One, CubeZ(c) * One>>, 1)

WallZ(c) ==
  Mesh("innerGeom",
       <<CubeX(c) * One, CubeH(c) * One, CubeZ(c) * One + One \div 2>>, 0)

WallsOfCube_BothDirections(c, occ3D) ==
  (IF has(occ3D, CubeX(c) + 1, CubeZ(c), CubeH(c)) THEN <<WallX(c)>> ELSE <<>>)
  \o (IF has(occ3D, CubeX(c) - 1, CubeZ(c), CubeH(c))
        THEN <<WallX(<<CubeX(c) - 1, CubeZ(c), CubeH(c)>>)>> ELSE <<>>)
  \o (IF has(occ3D, CubeX(c), CubeZ(c) + 1, CubeH(c)) THEN <<WallZ(c)>> ELSE <<>>)

\* One iteration of the for loop of addInternalWalls.
WallsOfCube(c, occ3D) ==
  (IF has(occ3D, CubeX(c) + 1, CubeZ(c), CubeH(c)) THEN <<WallX(c)>> ELSE <<>>)
  \o (IF has(occ3D, CubeX(c), CubeZ(c) + 1, CubeH(c)) THEN <<WallZ(c)>> ELSE <<>>)

addInternalWalls(pieceCoords, group) ==
  LET occ3D == Occ3D(pieceCoords)
      walls == Concat([i \in 1..Len(pieceCoords) |-> WallsOfCube(pieceCoords[i], occ3D)])
  IN  [group EXCEPT !.children = @ \o walls]

\* ------------------------------------------------------------ piece assembly
\* Lines 235-246 of generateNewPiece: the blocks, then the partitions, added
\* to the group the caller created.
BuildPiece(data, group) ==
  LET occ3D == Occ3D(data)
      block(c) ==
        [createBlock(exposedFacesFor(<<CubeX(c), CubeZ(c), CubeH(c)>>, occ3D))
           EXCEPT !.position = <<CubeX(c) * One, CubeH(c) * One, CubeZ(c) * One>>]
      blocks == [i \in 1..Len(data) |-> block(data[i])]
  IN  addInternalWalls(data, [group EXCEPT !.children = @ \o blocks])

\* ------------------------------------------------------------- bounding box
\* Half extents of a mesh's geometry along X, Y, Z, after its rotation about Y.
HalfExtent(node) ==
  LET g == CASE node.type = "horiz" -> <<size \div 2, t \div 2, t \div 2>>
             [] node.type = "depth" -> <<t \div 2, t \div 2, size \div 2>>
             [] node.type = "vert" -> <<t \div 2, size \div 2, t \div 2>>
             [] OTHER -> <<One \div 2, One \div 2, 0>>
  IN  IF node.rotY % 2 = 0 THEN g ELSE <<g[3], g[2], g[1]>>

\* The meshes below a group, each with its position in the group's parent frame.
Leaves(group) ==
  UNION { IF c.type = "group"
            THEN { [pos |-> Vec3Add(group.position, Vec3Add(c.position, m.position)),
                    half |-> HalfExtent(m)] : m \in Range(c.children) }
            ELSE { [pos |-> Vec3Add(group.position, c.position),
                    half |-> HalfExtent(c)] }
          : c \in Range(group.children) }

\* new THREE.Box3().setFromObject(group), the group having no rotated parent.
Box3FromObject(group) ==
  LET ls == Leaves(group)
      lo(k) == SetMin({l.pos[k] - l.half[k] : l \in ls})
      hi(k) == SetMax({l.pos[k] + l.half[k] : l \in ls})
  IN  [min |-> <<lo(1), lo(2), lo(3)>>, max |-> <<hi(1), hi(2), hi(3)>>]

BoxCenter_OfMin(box) == box.min

BoxCenter(box) ==
  <<(box.min[1] + box.max[1]) \div 2,
    (box.min[2] + box.max[2]) \div 2,
    (box.min[3] + box.max[3]) \div 2>>

\* currentPiece.position.sub(center)
CenterPiece(group) ==
  [group EXCEPT !.position = Vec3Sub(@, BoxCenter(Box3FromObject(group)))]

\* Lines 235-253 of generateNewPiece on the group created at line 230, for the
\* piece definition pieces[idx].
AssemblePiece(group, idx) == CenterPiece(BuildPiece(pieces[idx], group))

\* ------------------------------------------------------------------- state
VARIABLES
  scene,           \* the THREE.Scene: whether init created it, and its children
  heap,            \* the live THREE.Group objects (pieces and pivots), by identity
  currentPiece,    \* identity of the current piece group, or Undefined
  pivot,           \* identity of the current pivot group, or Undefined
  resetVertical,
  rotationPaused,
  pauseBtn,        \* background, icon and title of the pause button
  isDragging,
  lastX,
  lastY,
  dragDeltaY,
  gIn,             \* argument of a direct call of a geometry function
  gOut             \* what the last direct call returned

appVars ==
  <<scene, heap, currentPiece, pivot, resetVertical, rotationPaused, pauseBtn,
    isDragging, lastX, lastY, dragDeltaY>>

geomVars == <<gIn, gOut>>

vars == <<appVars, geomVars>>

\* Children of the scene that init adds besides the pivot.
AmbientLight == -1
DirLight == -2
Ground == -3

NoScene == [created |-> FALSE, children |-> <<>>]

\* The scene as init leaves it before it generates the first piece.
InitScene == [created |-> TRUE, children |-> <<AmbientLight, DirLight, Ground>>]

\* A THREE.Group as new THREE.Group() returns it.  children holds the meshes
\* and block groups added to a piece, childIds the groups (by identity) added
\* to a pivot; def remembers the catalog index a piece was built from.
NewGroup ==
  [children |-> <<>>, childIds |-> <<>>, position |-> <<0, 0, 0>>,
   rotation |-> [x |-> 0, y |-> 0], parent |-> Undefined, def |-> 0]

\* Object3D.remove: drops the child if it is one, else does nothing.
SceneRemove(sc, id) ==
  [sc EXCEPT !.children = SelectSeq(@, LAMBDA c : c # id)]

SceneAdd(sc, id) == [sc EXCEPT !.children = Append(@, id)]

\* Identities not in use, lowest first.
FreeIds(h) == (1..MaxObjects) \ DOMAIN h

FirstFree(h) == SetMin(FreeIds(h))

SecondFree(h) == SetMin(FreeIds(h) \ {FirstFree(h)})

\* Objects still referenced from the scene, currentPiece or pivot (the rest
\* is garbage the program can no longer observe).
RECURSIVE Reach(_, _)
Reach(h, ids) ==
  LET more == (ids \cup UNION {Range(h[i].childIds) : i \in ids}
                   \cup {h[i].parent : i \in ids}) \ {Undefined}
  IN  IF more = ids THEN ids ELSE Reach(h, more)

Collect(sc, h, cp, pv) ==
  LET roots == ({cp, pv} \cup {c \in Range(sc.children) : c > 0}) \ {Undefined}
      live  == Reach(h, roots)
  IN  [i \in live |-> h[i]]

\* ------------------------------------------------------- generateNewPiece
\* currentPiece = new THREE.Group()
NewPieceGroup_Reused ==
  IF currentPiece # Undefined /\ currentPiece \in DOMAIN heap
    THEN [heap[currentPiece] EXCEPT !.parent = Undefined]
    ELSE NewGroup

NewPieceGroup == NewGroup

\* AssemblePiece on a group fresh from new THREE.Group(), tabulated.
FreshAssembly == [idx \in 1..Len(pieces) |-> AssemblePiece(NewGroup, idx)]

\* if (pivot) scene.remove(pivot)
DetachOldPivot(sc, pv) == IF pv # Undefined THEN SceneRemove(sc, pv) ELSE sc

\* generateNewPiece for the catalog index Math.floor(Math.random() * 7) + 1 = idx,
\* run on the given scene, heap, currentPiece and pivot.  Before init has
\* created the scene, scene.remove / scene.add throw a TypeError and the
\* handler stops with the assignments made so far.
generateNewPiece(sc, h, cp, pv, idx) ==
  LET p     == FirstFree(h)
      v     == SecondFree(h)
      sc1   == IF cp # Undefined THEN SceneRemove(sc, cp) ELSE sc
      g0    == NewPieceGroup
      piece == [(IF g0 = NewGroup THEN FreshAssembly[idx] ELSE AssemblePiece(g0, idx))
                  EXCEPT !.def = idx]
      h1    == [i \in DOMAIN h \cup {p} |-> IF i = p THEN piece ELSE h[i]]
      sc2   == DetachOldPivot(sc1, pv)
      h2    == [i \in DOMAIN h1 \cup {v} |->
                  IF i = v THEN [NewGroup EXCEPT !.childIds = <<p>>]
                  ELSE IF i = p THEN [h1[p] EXCEPT !.parent = v]
                  ELSE h1[i]]
      sc3   == SceneAdd(sc2, v)
  IN  CASE ~sc.created /\ cp # Undefined ->
             [scene |-> sc, heap |-> h, currentPiece |-> cp, pivot |-> pv]
        [] ~sc.created /\ cp = Undefined /\ pv # Undefined ->
             [scene |-> sc, heap |-> Collect(sc, h1, p, pv),
              currentPiece |-> p, pivot |-> pv]
        [] ~sc.created /\ cp = Undefined /\ pv = Undefined ->
             [scene |-> sc, heap |-> Collect(sc, h2, p, v),
              currentPiece |-> p, pivot |-> v]
        [] OTHER ->
             [scene |-> sc3, heap |-> Collect(sc3, h2, p, v),
              currentPiece |-> p, pivot |-> v]

\* ----------------------------------------------------------------- animate
\* n / den rounded away from zero: the fixed-point product must not stall a
\* decay that double precision carries on.
DivAway(n, den) ==
  IF n >= 0 THEN (n + den - 1) \div den ELSE -((-n + den - 1) \div den)

\* The body of animate on a pivot's rotation: the new rotation and resetVertical.
animateBody_IgnoresPause(rot, dragging, paused, reset) ==
  IF ~dragging
    THEN LET x1 == IF reset
                     THEN rot.x + DivAway((0 - rot.x) * ResetGainPct, 100)
                     ELSE rot.x
             snap == reset /\ Abs(x1) < ResetEps
         IN  [rotation |-> [x |-> IF snap THEN 0 ELSE x1, y |-> rot.y + SpinStep],
              resetVertical |-> IF snap THEN FALSE ELSE reset]
    ELSE [rotation |-> rot, resetVertical |-> reset]

animateBody_WrongSign(rot, dragging, paused, reset) ==
  IF ~dragging /\ ~paused
    THEN LET x1 == IF reset
                     THEN rot.x - DivAway((0 - rot.x) * ResetGainPct, 100)
                     ELSE rot.x
             snap == reset /\ Abs(x1) < ResetEps
         IN  [rotation |-> [x |-> IF snap THEN 0 ELSE x1, y |-> rot.y + SpinStep],
              resetVertical |-> IF snap THEN FALSE ELSE reset]
    ELSE [rotation |-> rot, resetVertical |-> reset]

animateBody(rot, dragging, paused, reset) ==
  IF ~dragging /\ ~paused
    THEN LET x1 == IF reset
                     THEN rot.x + DivAway((0 - rot.x) * ResetGainPct, 100)
                     ELSE rot.x
             snap == reset /\ Abs(x1) < ResetEps
         IN  [rotation |-> [x |-> IF snap THEN 0 ELSE x1, y |-> rot.y + SpinStep],
              resetVertical |-> IF snap THEN FALSE ELSE reset]
    ELSE [rotation |-> rot, resetVertical |-> reset]

animate_SpinsPiece(h, pv, dragging, paused, reset) ==
  IF pv # Undefined
    THEN LET r  == animateBody(h[pv].rotation, dragging, paused, reset)
             cp == h[pv].childIds[1]
         IN  [heap |-> [h EXCEPT ![cp].rotation = r.rotation],
              resetVertical |-> r.resetVertical]
    ELSE [heap |-> h, resetVertical |-> reset]

\* animate on the given heap and pivot.
animate(h, pv, dragging, paused, reset) ==
  IF pv # Undefined
    THEN LET r == animateBody(h[pv].rotation, dragging, paused, reset)
         IN  [heap |-> [h EXCEPT ![pv].rotation = r.rotation],
              resetVertical |-> r.resetVertical]
    ELSE [heap |-> h, resetVertical |-> reset]

\* The frame would spin the pivot (the guard of line 296).
Spins == pivot # Undefined /\ ~isDragging /\ ~rotationPaused

\* ----------------------------------------------------------------- actions
IdleIn == [coords |-> <<>>, faces |-> <<>>]

NoCall == [op |-> "none", arg |-> 0, faces |-> <<>>, node |-> Group(<<>>)]

\* The state once the script has been evaluated: the handlers are registered,
\* nothing is created yet (init runs on the window's load event).
Init ==
  /\ scene = NoScene
  /\ heap = [i \in {} |-> NewGroup]
  /\ currentPiece = Undefined
  /\ pivot = Undefined
  /\ resetVertical = FALSE
  /\ rotationPaused = FALSE
  /\ pauseBtn = [background |-> "html", innerHTML |-> "html", title |-> "html"]
  /\ isDragging = FALSE
  /\ lastX = 0
  /\ lastY = 0
  /\ dragDeltaY = 0
  /\ gIn = IdleIn
  /\ gOut = NoCall

CanAllocate == Cardinality(FreeIds(heap)) >= 2

\* window 'load': init creates the scene, its lights and ground, generates
\* the first piece and runs the first animation frame.
Load ==
  /\ ~scene.created
  /\ CanAllocate
  /\ \E idx \in 1..Len(pieces) :
       \E g \in {generateNewPiece(InitScene, heap, currentPiece, pivot, idx)} :
       \E a \in {animate(g.heap, g.pivot, isDragging, rotationPaused, resetVertical)} :
           /\ scene' = g.scene
           /\ currentPiece' = g.currentPiece
           /\ pivot' = g.pivot
           /\ heap' = a.heap
           /\ resetVertical' = a.resetVertical
  /\ UNCHANGED <<rotationPaused, pauseBtn, isDragging, lastX, lastY, dragDeltaY, geomVars>>

\* Click on "New Piece".
NewPieceClick ==
  /\ CanAllocate
  /\ UNCHANGED <<resetVertical, rotationPaused, pauseBtn, isDragging, lastX, lastY,
                 dragDeltaY, geomVars>>
  /\ \E idx \in 1..Len(pieces) :
       \E g \in {generateNewPiece(scene, heap, currentPiece, pivot, idx)} :
           /\ currentPiece' = g.currentPiece
           /\ pivot' = g.pivot
           /\ scene' = g.scene
           /\ heap' = g.heap

\* One animation frame (the loop starts in init).
AnimationFrame ==
  /\ scene.created
  /\ Spins => heap[pivot].rotation.y + SpinStep <= MaxRotY
  /\ UNCHANGED <<scene, currentPiece, pivot, rotationPaused, pauseBtn, isDragging,
                 lastX, lastY, dragDeltaY, geomVars>>
  /\ \E a \in {animate(heap, pivot, isDragging, rotationPaused, resetVertical)} :
         /\ resetVertical' = a.resetVertical
         /\ heap' = a.heap

\* Click on the pause button.
PauseClick ==
  /\ rotationPaused' = ~rotationPaused
  /\ pauseBtn' = IF rotationPaused'
                   THEN [background |-> "#eee", innerHTML |-> "play icon",
                         title |-> "Play animation"]
                   ELSE [background |-> "#fff", innerHTML |-> "pause icon",
                         title |-> "Pause rotation"]
  /\ UNCHANGED <<scene, heap, currentPiece, pivot, resetVertical, isDragging,
                 lastX, lastY, dragDeltaY, geomVars>>

onTouchStart ==
  \E x \in 0..MaxTouch, y \in 0..MaxTouch :
    /\ isDragging' = TRUE
    /\ lastX' = x
    /\ lastY' = y
    /\ dragDeltaY' = IF pivot # Undefined THEN heap[pivot].rotation.x ELSE 0
    /\ UNCHANGED <<scene, heap, currentPiece, pivot, resetVertical, rotationPaused,
                   pauseBtn, geomVars>>

onTouchMove ==
  \E x \in 0..MaxTouch, y \in 0..MaxTouch :
    /\ isDragging /\ pivot # Undefined
    /\ LET dx == x - lastX
           dy == y - lastY
           ry == heap[pivot].rotation.y + dx * DragGain
           rx == heap[pivot].rotation.x + dy * DragGain
       IN  /\ Abs(rx) <= MaxRotX
           /\ Abs(ry) <= MaxRotY
           /\ heap' = [heap EXCEPT ![pivot].rotation = [x |-> rx, y |-> ry]]
    /\ lastX' = x
    /\ lastY' = y
    /\ UNCHANGED <<scene, currentPiece, pivot, resetVertical, rotationPaused,
                   pauseBtn, isDragging, dragDeltaY, geomVars>>

onTouchEnd ==
  /\ isDragging' = FALSE
  /\ resetVertical' = TRUE
  /\ UNCHANGED <<scene, heap, currentPiece, pivot, rotationPaused, pauseBtn,
                 lastX, lastY, dragDeltaY, geomVars>>

Next ==
  \/ Load
  \/ NewPieceClick
  \/ AnimationFrame
  \/ PauseClick
  \/ onTouchStart
  \/ onTouchMove
  \/ onTouchEnd

Spec == Init /\ [][Next]_vars

\* ------------------------------------------- direct calls of the geometry
\* Cube coordinates and piece definitions the geometry functions are called on:
\* the catalog, and every list of distinct coordinates of a small grid.
Grid == {<<x, z, h>> : x \in -1..MaxCoord, z \in 0..MaxCoord, h \in 0..MaxH}

CoordLists ==
  {s \in UNION {[1..n -> Grid] : n \in 1..MaxCubes} :
     \A i, j \in 1..Len(s) : i < j => s[i] # s[j]}

FaceNames == {"front", "back", "left", "right", "top", "bottom"}

FaceLists == UNION {[1..n -> FaceNames] : n \in 0..MaxFaces}

GeomInit ==
  /\ scene = NoScene
  /\ heap = [i \in {} |-> NewGroup]
  /\ currentPiece = Undefined
  /\ pivot = Undefined
  /\ resetVertical = FALSE
  /\ rotationPaused = FALSE
  /\ pauseBtn = [background |-> "html", innerHTML |-> "html", title |-> "html"]
  /\ isDragging = FALSE
  /\ lastX = 0
  /\ lastY = 0
  /\ dragDeltaY = 0
  /\ gIn \in {[coords |-> c, faces |-> <<>>] : c \in Range(pieces) \cup CoordLists}
             \cup {[coords |-> <<>>, faces |-> f] : f \in FaceLists}
  /\ gOut = NoCall

CubeOf(c) == <<CubeX(c), CubeZ(c), CubeH(c)>>

\* exposedFacesFor([x, z, h], occ3D) for one cube of the piece (line 239).
CallExposedFacesFor ==
  /\ gIn.coords # <<>>
  /\ \E i \in 1..Len(gIn.coords) :
       gOut' = [op |-> "exposedFacesFor", arg |-> i,
                faces |-> exposedFacesFor(CubeOf(gIn.coords[i]), Occ3D(gIn.coords)),
                node |-> Group(<<>>)]
  /\ UNCHANGED <<appVars, gIn>>

\* createBlock on an arbitrary list of face names.
CallCreateBlock ==
  /\ gIn.coords = <<>>
  /\ gOut' = [op |-> "createBlock", arg |-> 0, faces |-> gIn.faces,
              node |-> createBlock(gIn.faces)]
  /\ UNCHANGED <<appVars, gIn>>

\* createBlock on the exposed faces of one cube of the piece (lines 239-240).
CallCreateBlockOfCube ==
  /\ gIn.coords # <<>>
  /\ \E i \in 1..Len(gIn.coords) :
       \E f \in {exposedFacesFor(CubeOf(gIn.coords[i]), Occ3D(gIn.coords))} :
         gOut' = [op |-> "createBlockOfCube", arg |-> i, faces |-> f,
                  node |-> createBlock(f)]
  /\ UNCHANGED <<appVars, gIn>>

\* addInternalWalls(data, group) on an empty group.
CallAddInternalWalls ==
  /\ gIn.coords # <<>>
  /\ gOut' = [op |-> "addInternalWalls", arg |-> 0, faces |-> <<>>,
              node |-> addInternalWalls(gIn.coords, Group(<<>>))]
  /\ UNCHANGED <<appVars, gIn>>

\* The blocks and partitions of a whole piece (lines 235-246).
CallBuildPiece ==
  /\ gIn.coords # <<>>
  /\ gOut' = [op |-> "BuildPiece", arg |-> 0, faces |-> <<>>,
              node |-> BuildPiece(gIn.coords, Group(<<>>))]
  /\ UNCHANGED <<appVars, gIn>>

GeomNext ==
  \/ CallExposedFacesFor
  \/ CallCreateBlock
  \/ CallCreateBlockOfCube
  \/ CallAddInternalWalls
  \/ CallBuildPiece

GeomSpec == GeomInit /\ [][GeomNext]_vars

\* ------------------------------------------------- claims on the geometry
\* Whether the coordinate list holds the cube (x, z, h).
HasCube(coords, x, z, h) == \E i \in 1..Len(coords) : CubeOf(coords[i]) = <<x, z, h>>

Count(seq, Test(_)) == Len(SelectSeq(seq, Test))

\* Where createBlock puts the panel of a side, relative to the block.
SidePosition(side) ==
  LET d == size \div 2 + EPS
  IN  CASE side = "front" -> <<0, 0, d>>
        [] side = "back" -> <<0, 0, -d>>
        [] side = "left" -> <<-d, 0, 0>>
        [] side = "right" -> <<d, 0, 0>>

\* The neighbour offset (dx, dz) each side looks at.
SideOffset(side) ==
  CASE side = "front" -> <<0, 1>>
    [] side = "back" -> <<0, -1>>
    [] side = "left" -> <<-1, 0>>
    [] side = "right" -> <<1, 0>>

Sides == {"front", "back", "left", "right"}

\* C1: for every cube of a piece, exposedFacesFor on the piece's occupancy set
\* lists "front" iff the piece has no cube at (x, z+1, h), "back" iff none at
\* (x, z-1, h), "left" iff none at (x-1, z, h), "right" iff none at (x+1, z, h);
\* cubes at other heights do not change the result, and the list holds nothing
\* but these four names ("top" and "bottom" never).
C1_ExposureCorrect ==
  gOut.op = "exposedFacesFor" =>
    LET cs == gIn.coords
        c  == CubeOf(cs[gOut.arg])
        F  == Range(gOut.faces)
        sameLevel == SelectSeq(cs, LAMBDA e : CubeH(e) = c[3])
    IN  /\ \A side \in Sides :
             side \in F <=>
               ~HasCube(cs, c[1] + SideOffset(side)[1], c[2] + SideOffset(side)[2], c[3])
        /\ F \subseteq Sides
        /\ Len(gOut.faces) = Cardinality(F)
        /\ gOut.faces = exposedFacesFor(c, Occ3D(sameLevel))

\* The cube (1, 0, 1) of the sixth catalog piece stands on (1, 0, 0), whose
\* level holds neighbours, and has all four sides exposed.
C1_Witness ==
  /\ gIn.coords = pieces[6]
  /\ gOut.op = "exposedFacesFor"
  /\ gOut.arg = 4
  /\ gOut.faces = <<"front", "back", "left", "right">>

\* Pairs of cubes of the list at the same height, one step apart along x or z.
AdjacentPairs(cs) ==
  {pr \in (1..Len(cs)) \X (1..Len(cs)) :
     /\ pr[1] < pr[2]
     /\ CubeH(cs[pr[1]]) = CubeH(cs[pr[2]])
     /\ Abs(CubeX(cs[pr[1]]) - CubeX(cs[pr[2]]))
          + Abs(CubeZ(cs[pr[1]]) - CubeZ(cs[pr[2]])) = 1}

\* Pairs of cubes of the list that differ in height only, by one level.
StackedPairs(cs) ==
  {pr \in (1..Len(cs)) \X (1..Len(cs)) :
     /\ pr[1] < pr[2]
     /\ CubeX(cs[pr[1]]) = CubeX(cs[pr[2]])
     /\ CubeZ(cs[pr[1]]) = CubeZ(cs[pr[2]])
     /\ Abs(CubeH(cs[pr[1]]) - CubeH(cs[pr[2]])) = 1}

\* The point half way between two cubes, in length units.
MidPoint(a, b) ==
  <<((CubeX(a) + CubeX(b)) * One) \div 2,
    ((CubeH(a) + CubeH(b)) * One) \div 2,
    ((CubeZ(a) + CubeZ(b)) * One) \div 2>>

PanelsAt(nodes, position) ==
  Count(nodes, LAMBDA m : m.type = "innerGeom" /\ m.position = position)

\* C2: addInternalWalls adds as many partition panels as the piece has unordered
\* pairs of same-height cubes one step apart along x or z; each such pair gets
\* exactly one panel, half way between the two cubes, and a pair that differs
\* only in height gets none.
C2_PartitionCount ==
  gOut.op = "addInternalWalls" =>
    LET cs     == gIn.coords
        panels == gOut.node.children
    IN  /\ Len(panels) = Cardinality(AdjacentPairs(cs))
        /\ \A m \in Range(panels) : m.type = "innerGeom"
        /\ \A pr \in AdjacentPairs(cs) :
             PanelsAt(panels, MidPoint(cs[pr[1]], cs[pr[2]])) = 1
        /\ \A pr \in StackedPairs(cs) :
             PanelsAt(panels, MidPoint(cs[pr[1]], cs[pr[2]])) = 0

\* The sixth catalog piece: two adjacent pairs on the table and one cube
\* stacked on another.
C2_Witness ==
  /\ gIn.coords = pieces[6]
  /\ gOut.op = "addInternalWalls"
  /\ Len(gOut.node.children) = 2
  /\ StackedPairs(gIn.coords) # {}

\* C4: the group createBlock returns holds exactly 12 edge bars (4 bottom,
\* 4 top, 4 vertical) and one panel for each entry of exposedFaces that is
\* "front", "back", "left" or "right", on that side, and no panel for any other
\* entry; for the exposed faces of a cube it has 12 + |faces| children.
C4_BlockContents ==
  gOut.op \in {"createBlock", "createBlockOfCube"} =>
    LET ch     == gOut.node.children
        s      == size \div 2
        bars   == SelectSeq(ch, IsBar)
        panels == SelectSeq(ch, IsPanel)
    IN  /\ Len(bars) = 12
        /\ Count(bars, LAMBDA b : b.type \in {"horiz", "depth"} /\ b.position[2] = -s) = 4
        /\ Count(bars, LAMBDA b : b.type \in {"horiz", "depth"} /\ b.position[2] = s) = 4
        /\ Count(bars, LAMBDA b : b.type = "vert" /\ b.position[2] = 0) = 4
        /\ Cardinality(Range(bars)) = 12
        /\ Len(ch) = 12 + Len(panels)
        /\ Len(panels) = Count(gOut.faces, LAMBDA f : f \in Sides)
        /\ \A side \in Sides :
             Count(panels, LAMBDA m : m.position = SidePosition(side))
               = Count(gOut.faces, LAMBDA f : f = side)
        /\ gOut.op = "createBlockOfCube" => Len(ch) = 12 + Len(gOut.faces)

\* createBlock(["top", "front"]) returned 12 bars and the front panel.
C4_Witness ==
  /\ gIn.faces = <<"top", "front">>
  /\ gOut.op = "createBlock"
  /\ Len(gOut.node.children) = 13

\* C10: in an assembled piece every lateral side of every cube is covered by
\* exactly one panel: either the cube's block has a face panel on that side and
\* no partition lies on that boundary, or a same-height neighbour shares the
\* side, exactly one partition lies half way between the two cubes and the
\* block has no face panel there.  So face panels + 2 * partitions = 4 * cubes.
C10_EverySideCoveredOnce ==
  gOut.op = "BuildPiece" =>
    LET cs     == gIn.coords
        ch     == gOut.node.children
        blocks == SelectSeq(ch, LAMBDA n : n.type = "group")
        walls  == SelectSeq(ch, LAMBDA n : n.type = "innerGeom")
        faces(i) == Count(blocks[i].children, IsPanel)
        RECURSIVE Sum(_)
        Sum(i) == IF i = 0 THEN 0 ELSE faces(i) + Sum(i - 1)
    IN  /\ Len(blocks) = Len(cs)
        /\ Len(ch) = Len(blocks) + Len(walls)
        /\ \A i \in 1..Len(cs) :
             LET c == CubeOf(cs[i])
             IN  /\ blocks[i].position = <<c[1] * One, c[3] * One, c[2] * One>>
                 /\ \A side \in Sides :
                      LET d == SideOffset(side)
                          f == Count(blocks[i].children,
                                     LAMBDA m : IsPanel(m) /\ m.position = SidePosition(side))
                          w == PanelsAt(walls, MidPoint(c, <<c[1] + d[1], c[2] + d[2], c[3]>>))
                          n == HasCube(cs, c[1] + d[1], c[2] + d[2], c[3])
                      IN  \/ ~n /\ f = 1 /\ w = 0
                          \/ n /\ f = 0 /\ w = 1
        /\ Sum(Len(cs)) + 2 * Len(walls) = 4 * Len(cs)

\* The seventh catalog piece assembled: 12 face panels and 2 partitions.
C10_Witness ==
  /\ gIn.coords = pieces[7]
  /\ gOut.op = "BuildPiece"
  /\ Count(gOut.node.children, LAMBDA n : n.type = "innerGeom") = 2
  /\ Len(gOut.node.children) = 6

\* ------------------------------------------------ claims on the handlers
PivotsInScene == SelectSeq(scene.children, LAMBDA c : c > 0)

\* C3: after any number N >= 1 of generateNewPiece calls the scene has exactly
\* one pivot attached, that pivot has exactly one child, the current piece, and
\* nothing an earlier call created is still attached.
C3_SinglePivot ==
  currentPiece # Undefined =>
    /\ scene.created
    /\ PivotsInScene = <<pivot>>
    /\ heap[pivot].childIds = <<currentPiece>>
    /\ heap[currentPiece].parent = pivot

\* What C3 says, for the calls made once init has created the scene.
SinglePivotOnceInitialised ==
  scene.created =>
    /\ currentPiece # Undefined
    /\ PivotsInScene = <<pivot>>
    /\ heap[pivot].childIds = <<currentPiece>>
    /\ heap[currentPiece].parent = pivot
    /\ DOMAIN heap = {currentPiece, pivot}

\* C5: after the centering translation the axis-aligned bounding box of the
\* assembled piece, under the unrotated pivot, has its centre at the origin:
\* box.min + box.max = 0 on every axis.
C5_CenteredAtOrigin ==
  \A i \in DOMAIN heap :
    heap[i].def # 0 =>
      LET box == Box3FromObject(heap[i])
      IN  Vec3Add(box.min, box.max) = <<0, 0, 0>>

\* The I piece, moved by (-1.5, 0, 0).
C5_Witness ==
  /\ currentPiece # Undefined
  /\ heap[currentPiece].def = 1
  /\ heap[currentPiece].position = <<-15000, 0, 0>>

\* What a group is made of, its rotation apart.
Geometry(g) ==
  [children |-> g.children, childIds |-> g.childIds, position |-> g.position,
   parent |-> g.parent]

\* C6: the frame, pause and touch handlers never reassign currentPiece or pivot
\* and change nothing of any group but the pivot's rotation; no step changes
\* what an existing group is made of; and a step that writes currentPiece or
\* pivot (so a generateNewPiece, from the button or from init) puts groups that
\* did not exist before into both.
C6_OnlyRotationChanges ==
  [][ /\ (AnimationFrame \/ PauseClick \/ onTouchStart \/ onTouchMove \/ onTouchEnd) =>
           /\ currentPiece' = currentPiece
           /\ pivot' = pivot
           /\ scene' = scene
           /\ DOMAIN heap' = DOMAIN heap
           /\ \A i \in DOMAIN heap : i # pivot => heap'[i] = heap[i]
      /\ \A i \in DOMAIN heap \cap DOMAIN heap' : Geometry(heap'[i]) = Geometry(heap[i])
      /\ (currentPiece' # currentPiece \/ pivot' # pivot) =>
           /\ currentPiece' \notin DOMAIN heap \cup {Undefined}
           /\ pivot' \notin DOMAIN heap \cup {Undefined}
           /\ currentPiece' # pivot'
    ]_vars

\* A dragged and spun pivot that still carries the assembled piece.
C6_Witness ==
  /\ pivot # Undefined
  /\ heap[pivot].rotation.x # 0
  /\ heap[pivot].rotation.y # 0
  /\ heap[pivot].childIds = <<currentPiece>>
  /\ heap[currentPiece].children = FreshAssembly[heap[currentPiece].def].children

\* C7: for a fixed piece definition every invocation of generateNewPiece, from
\* whatever state (previous piece, pivot rotation, pause and drag flags),
\* produces the geometry the invocation on the pristine state produces: the
\* same blocks with the same panels, the same partitions at the same places,
\* the same centering translation.
C7_Deterministic ==
  \A i \in DOMAIN heap :
    heap[i].def # 0 =>
      LET first == FreshAssembly[heap[i].def]
      IN  /\ heap[i].children = first.children
          /\ heap[i].position = first.position

\* A piece generated over a previous one, while paused and dragging.
C7_Witness ==
  /\ scene.created
  /\ currentPiece = 3
  /\ heap[currentPiece].def = 7
  /\ rotationPaused
  /\ isDragging
  /\ resetVertical

\* C8: a frame changes the pivot's rotation only when a pivot exists, no drag
\* is in progress and rotation is not paused: otherwise the rotation and
\* resetVertical stay as they are, and when it does rotation.y grows by the
\* spin step (the frame init runs on the new pivot included); a click on the
\* pause button flips rotationPaused.
C8_FrameSpinsUnlessPausedOrDragging ==
  [][ /\ AnimationFrame =>
           /\ ~Spins => heap' = heap /\ resetVertical' = resetVertical
           /\ Spins => heap'[pivot].rotation.y = heap[pivot].rotation.y + SpinStep
      /\ Load =>
           /\ (isDragging \/ rotationPaused) =>
                /\ heap'[pivot'].rotation = [x |-> 0, y |-> 0]
                /\ resetVertical' = resetVertical
           /\ ~(isDragging \/ rotationPaused) => heap'[pivot'].rotation.y = SpinStep
      /\ PauseClick => rotationPaused' = ~rotationPaused
    ]_vars

\* Paused after two spinning frames.
C8_Witness ==
  /\ rotationPaused
  /\ pivot # Undefined
  /\ scene.created
  /\ heap[pivot].rotation.y = 2 * SpinStep
  /\ pauseBtn.title = "Play animation"

====
